---- MODULE Spec2Model ----
(***************************************************************************)
(* chat-cli-rs: the transcript file codec (Message::append,                *)
(* Message::read_messages), the session loop of run() around it, and the   *)
(* fragment fold of the streaming variant of the client.                   *)
(*                                                                         *)
(* Text is a sequence of one-character strings, so that trimming, line     *)
(* splitting and prefix tests are computed character by character as the   *)
(* Rust standard library computes them.  The alphabet of the inputs has    *)
(* no carriage return, so str::lines only has to split at "\n".            *)
(***************************************************************************)
EXTENDS Integers, Sequences, FiniteSets, TLC

VARIABLES
    exists,            \* chat_file.exists(): the transcript file is on disk
    file,              \* the bytes of the transcript file
    pc,                \* position of the running process
    messages,          \* Vec<Message> returned by the last read_messages
    returned_message,  \* the reply bound in run() at line 404
    turns,             \* iterations of the loop of run() completed
    edited,            \* the human has saved the file since the last prompt
    t,                 \* the Messages constructed by Message::new, in order
    file2,             \* a second, fresh file the decoded messages are written to
    merged,            \* the accumulator of the fragment fold
    received           \* the fragments delivered so far, in arrival order

vars == <<exists, file, pc, messages, returned_message, turns, edited, t,
          file2, merged, received>>

-----------------------------------------------------------------------------
(* Bounds *)

MaxTurns == 2
MaxMsgs == 2
MaxFrags == 2

-----------------------------------------------------------------------------
(* Text *)

NL == "\n"

user_heading == <<"#", " ", "U", "s", "e", "r">>
assistant_heading == <<"#", " ", "A", "s", "s", "i", "s", "t", "a", "n", "t">>
system_heading == <<"#", " ", "S", "y", "s", "t", "e", "m">>

\* char::is_whitespace, restricted to the characters texts are built from
is_whitespace(c) == c \in {" ", "\n", "\t"}

RECURSIVE trim_start(_)
trim_start(s) ==
    IF s = <<>> THEN <<>>
    ELSE IF is_whitespace(Head(s)) THEN trim_start(Tail(s))
    ELSE s

trim_end_mut(s) == s

RECURSIVE trim_end(_)
trim_end(s) ==
    IF s = <<>> THEN <<>>
    ELSE IF is_whitespace(s[Len(s)]) THEN trim_end(SubSeq(s, 1, Len(s) - 1))
    ELSE s

trim(s) == trim_end(trim_start(s))

starts_with(line, prefix) ==
    /\ Len(line) >= Len(prefix)
    /\ SubSeq(line, 1, Len(prefix)) = prefix

EndsWith(s, suffix) ==
    /\ Len(s) >= Len(suffix)
    /\ SubSeq(s, Len(s) - Len(suffix) + 1, Len(s)) = suffix

\* position of the first "\n" of s, 0 when there is none
FirstNewline(s) ==
    IF \E i \in 1..Len(s) : s[i] = NL
    THEN CHOOSE i \in 1..Len(s) : s[i] = NL /\ \A j \in 1..(i - 1) : s[j] # NL
    ELSE 0

\* str::lines: split at "\n"; a final "\n" does not open one more line
RECURSIVE lines(_)
lines(s) ==
    IF s = <<>> THEN <<>>
    ELSE LET i == FirstNewline(s)
         IN  IF i = 0 THEN <<s>>
             ELSE <<SubSeq(s, 1, i - 1)>> \o lines(SubSeq(s, i + 1, Len(s)))

-----------------------------------------------------------------------------
(* Message *)

Message(role, content) == [role |-> role, content |-> content]

\* the first writeln! of the arm of `role`: heading, "\n", trimmed content, "\n"
heading_of(role) ==
    IF role = "System" THEN system_heading
    ELSE IF role = "User" THEN user_heading
    ELSE assistant_heading

section_text_mut(role, content) ==
    heading_of(role) \o <<NL>> \o content \o <<NL>>

section_text(role, content) ==
    heading_of(role) \o <<NL>> \o trim(content) \o <<NL>>

\* the second writeln! of the System and Assistant arms: writeln!(file, "# User\n")
priming_text_mut(role) == user_heading \o <<NL, NL>>

priming_text(role) ==
    IF role \in {"System", "Assistant"} THEN user_heading \o <<NL, NL>>
    ELSE <<>>

\* OpenOptions::new().write(true).append(true): every write lands at the end
write_append_mut(data, text) == text

write_append(data, text) == data \o text

\* a write that fails has written a proper prefix of its text
partial_write(text) ==
    {SubSeq(text, 1, n) : n \in 0..(Len(text) - 1)}

Faults == {"none", "remove", "create", "open", "write1", "write2"}

\* Message::append on the file state fs = [exists, data].  `fault` is the
\* I/O call that fails, `part` what the failing writeln! still wrote.
\* The result is the new file state and how the call ended.
append(fs, content, role, fault, part) ==
    IF ~fs.exists /\ fault = "create"
    THEN [exists |-> FALSE, data |-> fs.data, result |-> "Err"]
    ELSE IF fault = "open"
    THEN [exists |-> TRUE, data |-> fs.data, result |-> "Err"]
    ELSE IF role = "Function"
    THEN [exists |-> TRUE, data |-> fs.data, result |-> "Panic"]
    ELSE IF fault = "write1"
    THEN [exists |-> TRUE, data |-> write_append(fs.data, part), result |-> "Err"]
    ELSE LET d1 == write_append(fs.data, section_text(role, content))
         IN  IF fault = "write2" /\ priming_text(role) # <<>>
             THEN [exists |-> TRUE, data |-> write_append(d1, part), result |-> "Err"]
             ELSE [exists |-> TRUE,
                   data |-> write_append(d1, priming_text(role)),
                   result |-> "Ok"]

\* the texts a failing writeln! of append(_, content, role, fault, _) may leave
Parts(content, role, fault) ==
    IF fault = "write1" THEN partial_write(section_text(role, content))
    ELSE IF fault = "write2" THEN partial_write(priming_text(role))
    ELSE {<<>>}

\* Message::new: append, panic when it fails, then Self { role, content }
new(fs, role, content, fault, part) ==
    LET r == append(fs, content, role, fault, part)
    IN  [exists |-> r.exists, data |-> r.data,
         result |-> IF r.result = "Ok" THEN "Ok" ELSE "Panic",
         message |-> Message(role, content)]

\* Message::first: remove the file when it exists, then Message::new
first(fs, role, content, fault, part) ==
    IF fs.exists /\ fault = "remove"
    THEN [exists |-> TRUE, data |-> fs.data, result |-> "Panic",
          message |-> Message(role, content)]
    ELSE new([exists |-> FALSE, data |-> <<>>], role, content, fault, part)

\* one iteration of the loop over contents.lines() in read_messages
read_line(st, line) ==
    IF \/ starts_with(line, user_heading)
       \/ starts_with(line, assistant_heading)
       \/ starts_with(line, system_heading)
    THEN [messages |->
              IF st.current_role # "None"
              THEN Append(st.messages,
                          Message(st.current_role, trim_end(st.current_content)))
              ELSE st.messages,
          current_role |->
              IF line = user_heading THEN "User"
              ELSE IF line = assistant_heading THEN "Assistant"
              ELSE IF line = system_heading THEN "System"
              ELSE st.current_role,
          current_content |-> <<>>]
    ELSE [st EXCEPT !.current_content = @ \o line \o <<NL>>]

RECURSIVE read_lines(_, _)
read_lines(st, ls) ==
    IF ls = <<>> THEN st
    ELSE read_lines(read_line(st, Head(ls)), Tail(ls))

\* Message::read_messages on the contents of the file
read_messages(contents) ==
    LET st == read_lines([messages |-> <<>>, current_role |-> "None",
                          current_content |-> <<>>],
                         lines(contents))
    IN  IF st.current_role # "None"
        THEN Append(st.messages,
                    Message(st.current_role, trim_end(st.current_content)))
        ELSE st.messages

-----------------------------------------------------------------------------
(* The codec applied to arbitrary transcripts: messages are written one    *)
(* after the other to a fresh file with Message::new, the file is read     *)
(* back with read_messages, and what was read is written to a second       *)
(* fresh file.                                                             *)

Roles == {"System", "User", "Assistant"}

Contents ==
    { <<>>,
      <<"a">>,
      <<" ", "a", NL>>,
      <<"#", " ", "N">>,
      <<"a", NL, NL, "b">>,
      user_heading,
      <<"a", NL>> \o user_heading \o <<"s">> }

NoFile == [exists |-> FALSE, data |-> <<>>]

NoMessage == [role |-> "None", has_content |-> FALSE, content |-> <<>>]

\* the accumulator before the first fragment
NoMerged == [role |-> "None", content |-> <<>>]

\* Message::new for each message of ms in order, starting from the state fs
RECURSIVE encode_all(_, _)
encode_all(fs, ms) ==
    IF ms = <<>> THEN fs.data
    ELSE LET r == new(fs, Head(ms).role, Head(ms).content, "none", <<>>)
         IN  encode_all([exists |-> r.exists, data |-> r.data], Tail(ms))

CodecInit ==
    /\ exists = FALSE
    /\ file = <<>>
    /\ pc = "encoding"
    /\ messages = <<>>
    /\ returned_message = NoMessage
    /\ turns = 0
    /\ edited = FALSE
    /\ t = <<>>
    /\ file2 = <<>>
    /\ merged = NoMerged
    /\ received = <<>>

CodecEncode(role, content) ==
    /\ pc = "encoding"
    /\ Len(t) < MaxMsgs
    /\ LET r == new([exists |-> exists, data |-> file], role, content, "none", <<>>)
       IN  /\ exists' = r.exists
           /\ file' = r.data
           /\ t' = Append(t, r.message)
    /\ UNCHANGED <<pc, messages, returned_message, turns, edited, file2,
                   merged, received>>

CodecDecode ==
    /\ pc = "encoding"
    /\ exists
    /\ messages' = read_messages(file)
    /\ pc' = "decoded"
    /\ UNCHANGED <<exists, file, returned_message, turns, edited, t, file2,
                   merged, received>>

CodecReEncode ==
    /\ pc = "decoded"
    /\ file2' = encode_all(NoFile, messages)
    /\ pc' = "reencoded"
    /\ UNCHANGED <<exists, file, messages, returned_message, turns, edited, t,
                   merged, received>>

CodecNext ==
    \/ \E role \in Roles, content \in Contents : CodecEncode(role, content)
    \/ CodecDecode
    \/ CodecReEncode

CodecSpec == CodecInit /\ [][CodecNext]_vars

-----------------------------------------------------------------------------
(* The session of run(): the system prompt is written with Message::first, *)
(* then each iteration waits for the human to edit the file and press      *)
(* Enter, reads the file, asks the remote service and appends the reply.   *)

\* auto_expert_system_response(), shortened: a text line, a "# Uploads"
\* line, the "# Assistant Rules" line, more text and the trailing blanks of
\* the raw string literal
prompt ==
    <<"p", NL, "#", " ", "U", "p", NL>> \o assistant_heading
        \o <<" ", "R", NL, "q", NL, " ">>

\* what may be at chat_file_path before the session starts
OldDocs == { <<>>, user_heading \o <<NL, "o", NL>> }

\* what the human types into the file before pressing Enter
HumanTexts == { <<"h", "i", NL>>, <<"h", "i">> }

\* ChatCompletionMessageRole of the reply
ReplyRoles == {"System", "User", "Assistant", "Function"}

ReplyContents ==
    { <<"4">>,
      <<" ", "4", NL>>,
      <<" ">>,
      <<"o", "k", NL>> \o user_heading \o <<" ", "g">> }

\* choices.first().unwrap().message of a completion that has a choice
Replies ==
    {[role |-> r, has_content |-> TRUE, content |-> c] :
        r \in ReplyRoles, c \in ReplyContents}
    \cup {[role |-> "Assistant", has_content |-> FALSE, content |-> <<>>]}

Init ==
    /\ \/ exists = FALSE /\ file = <<>>
       \/ exists = TRUE /\ file \in OldDocs
    /\ pc = "start"
    /\ messages = <<>>
    /\ returned_message = NoMessage
    /\ turns = 0
    /\ edited = FALSE
    /\ t = <<>>
    /\ file2 = <<>>
    /\ merged = NoMerged
    /\ received = <<>>

\* run(), line 379: Message::first(System, prompt, &chat_file_path)
Start(fault) ==
    /\ pc = "start"
    /\ \E part \in Parts(prompt, "System", fault) :
         LET r == first([exists |-> exists, data |-> file], "System", prompt,
                        fault, part)
         IN  /\ exists' = r.exists
             /\ file' = r.data
             /\ pc' = IF r.result = "Ok" THEN "prompt" ELSE "crashed"
    /\ UNCHANGED <<messages, returned_message, turns, edited, t, file2, merged,
                   received>>

\* the human, asked to update the log, types on the blank line of the
\* primed "# User" section ...
HumanFill(text) ==
    /\ pc = "prompt"
    /\ ~edited
    /\ EndsWith(file, user_heading \o <<NL, NL>>)
    /\ file' = SubSeq(file, 1, Len(file) - 1) \o text
    /\ edited' = TRUE
    /\ UNCHANGED <<exists, pc, messages, returned_message, turns, t, file2,
                   merged, received>>

\* ... or below what is in the file
HumanAdd(text) ==
    /\ pc = "prompt"
    /\ ~edited
    /\ exists
    /\ file' = file \o text
    /\ edited' = TRUE
    /\ UNCHANGED <<exists, pc, messages, returned_message, turns, t, file2,
                   merged, received>>

\* run(), lines 392-399: get_line_input, then Message::read_messages
ReadChat(ok) ==
    /\ pc = "prompt"
    /\ turns < MaxTurns
    /\ IF ok /\ exists
       THEN /\ messages' = read_messages(file)
            /\ pc' = "request"
       ELSE /\ messages' = messages
            /\ pc' = "exited"
    /\ edited' = FALSE
    /\ UNCHANGED <<exists, file, returned_message, turns, t, file2, merged,
                   received>>

\* request_chat_completion: the expect and the unwrap panic when the call
\* fails or the completion has no choice
RequestFails ==
    /\ pc = "request"
    /\ pc' = "crashed"
    /\ UNCHANGED <<exists, file, messages, returned_message, turns, edited, t,
                   file2, merged, received>>

RequestReturns(reply) ==
    /\ pc = "request"
    /\ returned_message' = reply
    /\ pc' = "append"
    /\ UNCHANGED <<exists, file, messages, turns, edited, t, file2, merged,
                   received>>

\* append_message_to_file: expect on the content, trim, Message::append
AppendReply(fault) ==
    /\ pc = "append"
    /\ IF ~returned_message.has_content
       THEN /\ pc' = "crashed"
            /\ UNCHANGED <<exists, file, turns>>
       ELSE LET message_string == trim(returned_message.content)
            IN  \E part \in Parts(message_string, returned_message.role, fault) :
                  LET r == append([exists |-> exists, data |-> file],
                                  message_string, returned_message.role,
                                  fault, part)
                  IN  /\ exists' = r.exists
                      /\ file' = r.data
                      /\ pc' = IF r.result = "Ok" THEN "prompt"
                               ELSE IF r.result = "Err" THEN "exited"
                               ELSE "crashed"
                      /\ turns' = IF r.result = "Ok" THEN turns + 1 ELSE turns
    /\ UNCHANGED <<messages, returned_message, edited, t, file2, merged,
                   received>>

Next ==
    \/ \E fault \in Faults : Start(fault)
    \/ \E text \in HumanTexts : HumanFill(text)
    \/ \E text \in HumanTexts : HumanAdd(text)
    \/ \E ok \in BOOLEAN : ReadChat(ok)
    \/ RequestFails
    \/ \E reply \in Replies : RequestReturns(reply)
    \/ \E fault \in Faults : AppendReply(fault)

Spec == Init /\ [][Next]_vars

-----------------------------------------------------------------------------
(* The fold of the fragments of a streamed reply into one message: the     *)
(* role of the first fragment that has one is kept, the content deltas are *)
(* concatenated in arrival order, and the fold ends when the stream        *)
(* closes, not when a fragment is marked final.                            *)

FragmentRoles == {"None", "Assistant", "User"}

Deltas == { <<"A">>, <<"B">>, <<"A", "B">> }

Fragments ==
    {[role |-> r, has_content |-> TRUE, content |-> c, is_final |-> f] :
        r \in FragmentRoles, c \in Deltas, f \in BOOLEAN}
    \cup {[role |-> r, has_content |-> FALSE, content |-> <<>>, is_final |-> f] :
        r \in FragmentRoles, f \in BOOLEAN}

merge_mut(acc, f) ==
    [role |-> IF f.role # "None" THEN f.role ELSE acc.role,
     content |-> IF f.has_content THEN acc.content \o f.content
                 ELSE acc.content]

merge(acc, f) ==
    [role |-> IF f.role # "None" /\ acc.role = "None" THEN f.role
              ELSE acc.role,
     content |-> IF f.has_content THEN acc.content \o f.content
                 ELSE acc.content]

FoldInit ==
    /\ exists = FALSE
    /\ file = <<>>
    /\ pc = "Empty"
    /\ messages = <<>>
    /\ returned_message = NoMessage
    /\ turns = 0
    /\ edited = FALSE
    /\ t = <<>>
    /\ file2 = <<>>
    /\ merged = NoMerged
    /\ received = <<>>

FoldReceive(f) ==
    /\ pc \in {"Empty", "Accumulating"}
    /\ Len(received) < MaxFrags
    /\ merged' = merge(merged, f)
    /\ received' = Append(received, f)
    /\ pc' = "Accumulating"
    /\ UNCHANGED <<exists, file, messages, returned_message, turns, edited, t,
                   file2>>

\* the fragment source is exhausted
FoldClose ==
    /\ pc \in {"Empty", "Accumulating"}
    /\ pc' = IF pc = "Empty" THEN "NoResponse" ELSE "Done"
    /\ UNCHANGED <<exists, file, messages, returned_message, turns, edited, t,
                   file2, merged, received>>

FoldNext ==
    \/ \E f \in Fragments : FoldReceive(f)
    \/ FoldClose

FoldSpec == FoldInit /\ [][FoldNext]_vars

-----------------------------------------------------------------------------
(* Vocabulary of the properties *)

IsHeadingLine(line) == line \in {user_heading, assistant_heading, system_heading}

HasHeadingPrefix(line) ==
    \/ starts_with(line, user_heading)
    \/ starts_with(line, assistant_heading)
    \/ starts_with(line, system_heading)

Range(f) == {f[i] : i \in DOMAIN f}

IsPrefixOf(a, b) == Len(a) <= Len(b) /\ SubSeq(b, 1, Len(a)) = a

Normalized(ms) == \A i \in DOMAIN ms : ms[i].content = trim(ms[i].content)

\* no line of a content would be taken for a heading by read_messages
NoHeadingLines(ms) ==
    \A i \in DOMAIN ms :
        LET ls == lines(trim(ms[i].content))
        IN  \A k \in DOMAIN ls : ~HasHeadingPrefix(ls[k])

EmptyUser == Message("User", <<>>)

\* ms with the priming section's empty User message after each System and
\* Assistant message
RECURSIVE Primed(_)
Primed(ms) ==
    IF ms = <<>> THEN <<>>
    ELSE IF Head(ms).role \in {"System", "Assistant"}
         THEN <<Head(ms), EmptyUser>> \o Primed(Tail(ms))
         ELSE <<Head(ms)>> \o Primed(Tail(ms))

\* ms without the empty User message that directly follows a System or
\* Assistant message
StripPrimed(ms) ==
    LET keep(i) == ~(/\ i > 1
                     /\ ms[i] = EmptyUser
                     /\ ms[i - 1].role \in {"System", "Assistant"})
        RECURSIVE go(_)
        go(i) == IF i > Len(ms) THEN <<>>
                 ELSE IF keep(i) THEN <<ms[i]>> \o go(i + 1)
                 ELSE go(i + 1)
    IN  go(1)

ExactHeadingLines(d) == SelectSeq(lines(d), IsHeadingLine)

\* the document ends with the lines "# User" and "", each closed by "\n"
EndsWithEmptyUserSection(d) ==
    LET ls == lines(d)
        n == Len(ls)
    IN  /\ n >= 2
        /\ ls[n - 1] = user_heading
        /\ ls[n] = <<>>
        /\ d[Len(d)] = NL

-----------------------------------------------------------------------------
(* C1 *)

-----------------------------------------------------------------------------
(* C2 *)

-----------------------------------------------------------------------------
(* C7 *)

\* C7 as stated: after each write the document ends with an empty "# User"
\* section exactly when the message written last is a System or an
\* Assistant message.
C7_PrimedIffSystemOrAssistant ==
    (pc = "encoding" /\ t # <<>>) =>
        (EndsWithEmptyUserSection(file)
            <=> t[Len(t)].role \in {"System", "Assistant"})

\* C7, amended: writing a System or Assistant message adds its heading, its
\* trimmed content and one empty "# User" section; writing a User message
\* adds its heading and its trimmed content only; the document then ends
\* with an empty "# User" section exactly when the message written last is a
\* System or Assistant message or a User message whose trimmed content is
\* empty.
C7_Priming ==
    [][ (pc = "encoding" /\ Len(t') = Len(t) + 1) =>
          LET m == t'[Len(t')]
              body == heading_of(m.role) \o <<NL>> \o trim(m.content) \o <<NL>>
          IN  /\ m.role \in {"System", "Assistant"}
                    => file' = file \o body \o user_heading \o <<NL, NL>>
              /\ m.role = "User" => file' = file \o body
              /\ EndsWithEmptyUserSection(file')
                    <=> \/ m.role \in {"System", "Assistant"}
                        \/ trim(m.content) = <<>> ]_vars

C7_Witness ==
    /\ pc = "encoding"
    /\ Len(t) = 2
    /\ t[1].role = "System"
    /\ t[2].role = "User" /\ t[2].content = <<" ", "a", NL>>
    /\ ~EndsWithEmptyUserSection(file)

-----------------------------------------------------------------------------
(* C3 *)

\* the lines of d after its first heading line that are neither heading
\* lines nor blank
BodyLines(d) ==
    LET ls == lines(d)
    IN  {trim_end(ls[k]) : k \in {j \in DOMAIN ls :
                /\ \E h \in 1..(j - 1) : IsHeadingLine(ls[h])
                /\ ~IsHeadingLine(ls[j])
                /\ trim(ls[j]) # <<>>}}

ContentLines(ms) ==
    UNION {{trim_end(l) : l \in Range(lines(ms[i].content))} : i \in DOMAIN ms}

\* C3: only a line equal to one of the three headings breaks a section: the
\* messages read from the file are as many as its heading lines, and every
\* other line below the first heading is kept in the content of a message.
C3_HeadingStrictness ==
    pc = "request" =>
        /\ Len(messages) = Len(ExactHeadingLines(file))
        /\ BodyLines(file) \subseteq ContentLines(messages)

-----------------------------------------------------------------------------
(* C5 *)

RolesOf(ms) == [i \in DOMAIN ms |-> ms[i].role]

\* C5: a completed turn makes the transcript read from the file grow at its
\* end by the reply (and the empty User message of the priming section)
\* while every message read before stays as it was, and after the first
\* turn with an Assistant reply the file reads as System, User, Assistant
\* and the trailing empty User section.
C5_TranscriptGrowth ==
    [][ (pc = "append" /\ pc' = "prompt") =>
          LET reply == Message(returned_message.role,
                               trim(returned_message.content))
              tail == IF reply.role \in {"System", "Assistant"}
                      THEN <<reply, EmptyUser>> ELSE <<reply>>
          IN  /\ read_messages(file') = read_messages(file) \o tail
              /\ (turns' = 1 /\ reply.role = "Assistant")
                    => RolesOf(read_messages(file'))
                         = <<"System", "User", "Assistant", "User">> ]_vars

-----------------------------------------------------------------------------
(* C6 *)

\* C6: the content of every Message returned by read_messages has neither
\* leading nor trailing whitespace.
C6_ContentNormalized ==
    \A i \in DOMAIN messages : messages[i].content = trim(messages[i].content)

-----------------------------------------------------------------------------
(* C8 *)

\* C8: the first write of the session leaves in the file only what it wrote
\* itself, whatever was there before; every later write leaves the bytes
\* already in the file where they are and adds only at the end.
C8_FreshStartAppendOnly ==
    [][ /\ (pc = "start" /\ pc' = "prompt") =>
              /\ exists'
              /\ file' = system_heading \o <<NL>> \o trim(prompt) \o <<NL>>
                            \o user_heading \o <<NL, NL>>
        /\ (pc = "append" /\ pc' # "append") =>
              /\ exists => exists'
              /\ IsPrefixOf(file, file') ]_vars

C8_Witness ==
    /\ pc = "prompt"
    /\ turns = 1
    /\ returned_message.role = "Assistant"
    /\ IsPrefixOf(system_heading \o <<NL>> \o trim(prompt), file)
    /\ EndsWith(file, assistant_heading \o <<NL, "4", NL>> \o user_heading
                          \o <<NL, NL>>)

-----------------------------------------------------------------------------
(* C9 *)

\* C9: a reply with the Function role ends in a failure, and whenever the
\* request or the append of a turn fails the file on disk is what it was
\* before the failed step.
C9_FailureLeavesFile ==
    [][ /\ (pc = "append" /\ returned_message.role = "Function"
               /\ pc' # "append")
              => pc' \in {"crashed", "exited"}
        /\ (pc \in {"request", "append"} /\ pc' \in {"crashed", "exited"})
              => (file' = file /\ exists' = exists) ]_vars

-----------------------------------------------------------------------------
(* C10 *)

\* C10: a reply without content ends the turn in a failure that leaves the
\* file alone, and the file never holds an Assistant section with empty
\* content.
C10_NoEmptyAssistant ==
    [][ /\ (pc = "append" /\ ~returned_message.has_content /\ pc' # "append")
              => (pc' = "crashed" /\ file' = file)
        /\ \A i \in DOMAIN read_messages(file') :
              ~(/\ read_messages(file')[i].role = "Assistant"
                /\ read_messages(file')[i].content = <<>>) ]_vars

-----------------------------------------------------------------------------
(* C4 *)

RECURSIVE FirstRole(_)
FirstRole(fs) ==
    IF fs = <<>> THEN "None"
    ELSE IF Head(fs).role # "None" THEN Head(fs).role
    ELSE FirstRole(Tail(fs))

RECURSIVE AllDeltas(_)
AllDeltas(fs) ==
    IF fs = <<>> THEN <<>>
    ELSE (IF Head(fs).has_content THEN Head(fs).content ELSE <<>>)
            \o AllDeltas(Tail(fs))

\* C4: when the stream closes after at least one fragment, the message has
\* the first role any fragment carried and the concatenation, in arrival
\* order, of every content delta, those after a final fragment included.
C4_FoldResult ==
    pc = "Done" =>
        /\ received # <<>>
        /\ merged.role = FirstRole(received)
        /\ merged.content = AllDeltas(received)

C4_Witness ==
    /\ pc = "Done"
    /\ Len(received) = 2
    /\ received[1].role = "Assistant" /\ received[1].content = <<"A">>
    /\ received[1].is_final
    /\ received[2].role = "User" /\ received[2].content = <<"B">>
    /\ merged = [role |-> "Assistant", content |-> <<"A", "B">>]

====
